---- MODULE Spec2Model ----
(***************************************************************************)
(* A model of elektronn3/data/coord_transforms.py: the homogeneous 4x4     *)
(* matrix builders, get_warped_coord_transform (the random transform       *)
(* sampler) and warp_slice (coordinate mapping, bounds validation and      *)
(* resampling).                                                            *)
(*                                                                         *)
(* Numbers.  The program computes in floating point.  The model computes   *)
(* in exact rational arithmetic: a matrix is a record [n, d] standing for  *)
(* the integer matrix n divided by the positive integer d, a coordinate    *)
(* vector likewise, a voxel value a fraction [n, d].  Axes are numbered    *)
(* 1..4 here (depth, height, width, homogeneous) where numpy numbers them  *)
(* 0..3.                                                                   *)
(***************************************************************************)
EXTENDS Integers, Sequences, FiniteSets, TLC

(***************************************************************************)
(* Integer and rational helpers                                            *)
(***************************************************************************)
Abs(a) == IF a < 0 THEN -a ELSE a

RECURSIVE GCD(_, _)
GCD(a, b) == IF b = 0 THEN Abs(a) ELSE GCD(b, a % Abs(b))

\* np.floor and np.ceil of the fraction n/d, d > 0
Floor(n, d) == n \div d

Ceil(n, d) == -((-n) \div d)

\* np.int32(u): conversion of a float to an integer truncates toward zero
Trunc(n, d) == IF n >= 0 THEN n \div d ELSE -((-n) \div d)

\* np.round(u): round half to even
Round(n, d) ==
    LET f == Floor(n, d)
        r == 2 * (n - f * d)
    IN  IF r < d THEN f
        ELSE IF r > d THEN f + 1
        ELSE IF f % 2 = 0 THEN f ELSE f + 1

\* the fraction n/d in lowest terms with a positive denominator
Frac(n, d) ==
    LET g == GCD(n, d)
        s == IF d < 0 THEN -1 ELSE 1
    IN  [n |-> s * (n \div g), d |-> s * (d \div g)]

RECURSIVE SeqGCD(_)
SeqGCD(s) == IF s = <<>> THEN 0 ELSE GCD(Head(s), SeqGCD(Tail(s)))

Min2(a, b) == IF a <= b THEN a ELSE b

Max2(a, b) == IF a >= b THEN a ELSE b

SetMin(S) == CHOOSE x \in S : \A y \in S : x <= y

SetMax(S) == CHOOSE x \in S : \A y \in S : x >= y

(***************************************************************************)
(* Matrices                                                                *)
(***************************************************************************)
Ix == 1..4

\* a matrix in lowest terms with a positive denominator
MatNorm(n, d) ==
    LET g == GCD(SeqGCD(n[1] \o n[2] \o n[3] \o n[4]), d)
        s == IF d < 0 THEN -1 ELSE 1
    IN  [n |-> [i \in Ix |-> [j \in Ix |-> s * (n[i][j] \div g)]],
         d |-> s * (d \div g)]

\* np.eye(4)
identity ==
    [n |-> << <<1, 0, 0, 0>>, <<0, 1, 0, 0>>, <<0, 0, 1, 0>>, <<0, 0, 0, 1>> >>,
     d |-> 1]

\* translate(dz, dy, dx) with the translation given in halves: dz = hz / 2
translate(hz, hy, hx) ==
    MatNorm(<< <<2, 0, 0, hz>>, <<0, 2, 0, hy>>, <<0, 0, 2, hx>>, <<0, 0, 0, 2>> >>, 2)

\* scale(mz, my, mx) for integer factors
scale(mz, my, mx) ==
    [n |-> << <<mz, 0, 0, 0>>, <<0, my, 0, 0>>, <<0, 0, mx, 0>>, <<0, 0, 0, 1>> >>,
     d |-> 1]

\* scale(1.0 / mz, 1, 1): the depth factor is the reciprocal of an integer
scale_recip_z(mz) ==
    MatNorm(<< <<1, 0, 0, 0>>, <<0, mz, 0, 0>>, <<0, 0, mz, 0>>, <<0, 0, 0, mz>> >>, mz)

\* np.dot(A, B)
dot(A, B) ==
    MatNorm([i \in Ix |-> [j \in Ix |->
                A.n[i][1] * B.n[1][j] + A.n[i][2] * B.n[2][j]
              + A.n[i][3] * B.n[3][j] + A.n[i][4] * B.n[4][j]]],
            A.d * B.d)

\* reduce(np.dot, mat_list, identity())
RECURSIVE reduce_dot(_, _)
reduce_dot(acc, mat_list) ==
    IF mat_list = <<>> THEN acc
    ELSE reduce_dot(dot(acc, Head(mat_list)), Tail(mat_list))

\* a variant of chain_matrices that multiplies each element onto the left of
\* the accumulator
RECURSIVE reduce_dot_left(_, _)
reduce_dot_left(acc, mat_list) ==
    IF mat_list = <<>> THEN acc
    ELSE reduce_dot_left(dot(Head(mat_list), acc), Tail(mat_list))

chain_matrices_Premultiplied(mat_list) == reduce_dot_left(identity, mat_list)

chain_matrices(mat_list) == reduce_dot(identity, mat_list)

\* the three indices other than i, in increasing order
Others(i) == CASE i = 1 -> <<2, 3, 4>>
               [] i = 2 -> <<1, 3, 4>>
               [] i = 3 -> <<1, 2, 4>>
               [] i = 4 -> <<1, 2, 3>>

Det3(n, r, c) ==
      n[r[1]][c[1]] * (n[r[2]][c[2]] * n[r[3]][c[3]] - n[r[2]][c[3]] * n[r[3]][c[2]])
    - n[r[1]][c[2]] * (n[r[2]][c[1]] * n[r[3]][c[3]] - n[r[2]][c[3]] * n[r[3]][c[1]])
    + n[r[1]][c[3]] * (n[r[2]][c[1]] * n[r[3]][c[2]] - n[r[2]][c[2]] * n[r[3]][c[1]])

Sign(i, j) == IF (i + j) % 2 = 0 THEN 1 ELSE -1

Cofactor(n, i, j) == Sign(i, j) * Det3(n, Others(i), Others(j))

Det4(n) ==
      n[1][1] * Cofactor(n, 1, 1) + n[1][2] * Cofactor(n, 1, 2)
    + n[1][3] * Cofactor(n, 1, 3) + n[1][4] * Cofactor(n, 1, 4)

Singular(M) == Det4(M.n) = 0

\* np.linalg.inv(M): the adjugate over the determinant
inv(M) ==
    MatNorm([i \in Ix |-> [j \in Ix |-> M.d * Cofactor(M.n, j, i)]], Det4(M.n))

(***************************************************************************)
(* Random number generators.  A generator (np.random.RandomState, and the  *)
(* module-level generator behind np.random.uniform) is modelled as a       *)
(* multiplicative congruential generator: its state is a number in         *)
(* 1..RngMod-1, a draw returns the uniform variate state/RngMod and        *)
(* replaces the state by RngMul * state mod RngMod.  What matters is kept: *)
(* the stream of draws is a function of the state alone, and every draw    *)
(* advances the state.                                                     *)
(***************************************************************************)
RngMod == 31

RngMul == 3

RngNext(st) == (RngMul * st) % RngMod

\* the state after i draws
RECURSIVE RngAfter(_, _)
RngAfter(st, i) == IF i = 0 THEN st ELSE RngAfter(RngNext(st), i - 1)

\* floor(u * k) for the variate u of state st: the bucket of 0..k-1 the draw falls in
Bucket(st, k) == (st * k) \div RngMod

\* rng.randint(low, high) with bounds given in halves: the bounds are converted
\* to integers by truncation, then low + floor(u * (high - low))
IntLow(low2) == Trunc(low2, 2)

randint(st, low2, high2) == IntLow(low2) + Bucket(st, IntLow(high2) - IntLow(low2))

\* rng.binomial(1, 0.5) for one element
binomial(st) == IF 2 * st < RngMod THEN 1 ELSE 0

(***************************************************************************)
(* The random matrix builders                                              *)
(***************************************************************************)
\* The angle rng.rand() * 2 * pi * amount for amount = 1, as (cos, sin) over
\* a denominator: one angle in each eighth of the circle
Angles ==
    << [c |-> 5, s |-> 0, d |-> 5], [c |-> 3, s |-> 4, d |-> 5],
       [c |-> 0, s |-> 5, d |-> 5], [c |-> -4, s |-> 3, d |-> 5],
       [c |-> -5, s |-> 0, d |-> 5], [c |-> -3, s |-> -4, d |-> 5],
       [c |-> 0, s |-> -5, d |-> 5], [c |-> 4, s |-> -3, d |-> 5] >>

rand_angle(st) == Angles[Bucket(st, Len(Angles)) + 1]

\* The angle np.arcsin(rng.rand()) * amount for amount = 1: its sine is the variate
ArcsinAngles ==
    << [c |-> 5, s |-> 0, d |-> 5], [c |-> 4, s |-> 3, d |-> 5], [c |-> 3, s |-> 4, d |-> 5] >>

arcsin_angle(st) == ArcsinAngles[Bucket(st, Len(ArcsinAngles)) + 1]

\* the angle -a
Neg(a) == [a EXCEPT !.s = -a.s]

rotate_z(a) ==
    MatNorm(<< <<a.d, 0, 0, 0>>, <<0, a.c, -a.s, 0>>, <<0, a.s, a.c, 0>>, <<0, 0, 0, a.d>> >>, a.d)

rotate_y(a) ==
    MatNorm(<< <<a.c, -a.s, 0, 0>>, <<a.s, a.c, 0, 0>>, <<0, 0, a.d, 0>>, <<0, 0, 0, a.d>> >>, a.d)

\* get_random_rotmat(lock_z, amount = 1, rng): the matrix and the draws taken
RotDraws(lock_z) == IF lock_z THEN 1 ELSE 3

get_random_rotmat(lock_z, st) ==
    LET gamma == rand_angle(st)
        phi   == rand_angle(RngAfter(st, 1))
        theta == arcsin_angle(RngAfter(st, 2))
    IN  IF lock_z THEN rotate_z(gamma)
        ELSE chain_matrices(<<rotate_z(gamma), rotate_y(Neg(theta)), rotate_z(Neg(phi))>>)

\* get_random_flipmat(no_x_flip, rng): 4 draws
FlipDraws == 4

get_random_flipmat(no_x_flip, st) ==
    LET flips == [i \in Ix |-> binomial(RngAfter(st, i - 1)) * 2 - 1]
        f == [flips EXCEPT ![4] = 1, ![3] = IF no_x_flip THEN 1 ELSE flips[3]]
    IN  [n |-> [i \in Ix |-> [j \in Ix |-> IF i = j THEN f[i] ELSE 0]], d |-> 1]

\* get_random_swapmat(lock_z, rng): 1 draw, S = np.eye(4)[swaps[i]]
Swaps(lock_z) ==
    IF lock_z
    THEN << <<1, 2, 3, 4>>, <<1, 3, 2, 4>> >>
    ELSE << <<1, 2, 3, 4>>, <<1, 3, 2, 4>>, <<2, 1, 3, 4>>,
            <<2, 3, 1, 4>>, <<3, 1, 2, 4>>, <<3, 2, 1, 4>> >>

SwapDraws == 1

get_random_swapmat(lock_z, st) ==
    LET swaps == Swaps(lock_z)
        i == randint(st, 0, 2 * Len(swaps))
    IN  [n |-> [r \in Ix |-> [j \in Ix |-> IF j = swaps[i + 1][r] THEN 1 ELSE 0]], d |-> 1]

\* get_random_warpmat(lock_z, perspective, amount = 1, rng): the perturbation is
\* drawn by np.random.uniform, that is from the module-level generator with state
\* g, whatever rng is.  Entries are numerators over WarpDen.  A draw of
\* uniform(-0.1, 0.1) is one of -1/20, 0, 1/20, by the third its variate falls in.
WarpDen == 400

WarpDraws == 16

uniform(g) == (Bucket(g, 3) - 1) * (WarpDen \div 20)

\* np.clip(v, -3e-3, 3e-3) of the numerator v over WarpDen
ClipPerspective(v) ==
    IF 1000 * v > 3 * WarpDen THEN (3 * WarpDen) \div 1000
    ELSE IF 1000 * v < -3 * WarpDen THEN -((3 * WarpDen) \div 1000)
    ELSE v

\* a variant of get_random_warpmat that keeps the bottom row of the perturbation
\* when perspective is off
get_random_warpmat_KeepBottomRow(lock_z, perspective, g) ==
    LET drawn == [i \in Ix |-> [j \in Ix |-> uniform(RngAfter(g, 4 * (i - 1) + (j - 1)))]]
        p1 == [i \in Ix |-> [j \in Ix |-> IF i = 4 /\ j = 4 THEN 0 ELSE drawn[i][j]]]
        p2 == [i \in Ix |-> [j \in Ix |-> IF lock_z /\ (i = 1 \/ j = 1) THEN 0 ELSE p1[i][j]]]
        p4 == [i \in Ix |-> [j \in Ix |->
                 IF i = 4 /\ j < 4 THEN ClipPerspective(p2[i][j] \div 20) ELSE p2[i][j]]]
    IN  MatNorm([i \in Ix |-> [j \in Ix |-> (IF i = j THEN WarpDen ELSE 0) + p4[i][j]]], WarpDen)

get_random_warpmat(lock_z, perspective, g) ==
    LET drawn == [i \in Ix |-> [j \in Ix |-> uniform(RngAfter(g, 4 * (i - 1) + (j - 1)))]]
        p1 == [i \in Ix |-> [j \in Ix |-> IF i = 4 /\ j = 4 THEN 0 ELSE drawn[i][j]]]
        p2 == [i \in Ix |-> [j \in Ix |-> IF lock_z /\ (i = 1 \/ j = 1) THEN 0 ELSE p1[i][j]]]
        p3 == [i \in Ix |-> [j \in Ix |-> IF ~perspective /\ i = 4 THEN 0 ELSE p2[i][j]]]
        \* perturb[3,:3] *= 0.05, then the clip
        p4 == [i \in Ix |-> [j \in Ix |->
                 IF i = 4 /\ j < 4 THEN ClipPerspective(p3[i][j] \div 20) ELSE p3[i][j]]]
    IN  MatNorm([i \in Ix |-> [j \in Ix |-> (IF i = j THEN WarpDen ELSE 0) + p4[i][j]]], WarpDen)

(***************************************************************************)
(* Volumetric sources.  A source is a record [shape, pat]: shape is the    *)
(* array shape, (C, D, H, W) for a well-formed source, and pat names the   *)
(* contents.  The contents are fixed functions of the voxel index.         *)
(***************************************************************************)
\* the value stored at channel k, voxel (z, y, x) (0-based)
Voxel(src, k, z, y, x) ==
    CASE src.pat = "coord"  -> 1000 * k + 100 * z + 10 * y + x
      [] src.pat = "labels" -> (z + 2 * y + x + k) % 3
      [] src.pat = "signed" -> ((z + y + x + k) % 3) - 1

\* src.shape[1:] of a 4-dimensional source
Spatial(src) == <<src.shape[2], src.shape[3], src.shape[4]>>

NoSource == [shape |-> <<>>, pat |-> "none"]

\* voxel indices of an array of spatial shape sh
Grid(sh) == (0..(sh[1] - 1)) \X (0..(sh[2] - 1)) \X (0..(sh[3] - 1))

\* slice_h5(src, lo, hi): the region [lo, hi) of the source, as the sub-array
\* cut[k][u, v, w] = src[k][lo + (u, v, w)]
slice_h5(src, lo, hi) == [src |-> src, lo |-> lo, hi |-> hi]

CutShape(cut) == <<cut.hi[1] - cut.lo[1], cut.hi[2] - cut.lo[2], cut.hi[3] - cut.lo[3]>>

InCut(cut, u, v, w) == <<u, v, w>> \in Grid(CutShape(cut))

\* an undefined value: what a read outside an array yields
Undef == [n |-> 0, d |-> 0]

\* cut[k][u, v, w]; the compiled resamplers do not check their indices
CutAt(cut, k, u, v, w) ==
    IF InCut(cut, u, v, w)
    THEN Voxel(cut.src, k, cut.lo[1] + u, cut.lo[2] + v, cut.lo[3] + w)
    ELSE 0

\* target_cut.max()
CutMax(cut) ==
    SetMax({Voxel(cut.src, k, cut.lo[1] + p[1], cut.lo[2] + p[2], cut.lo[3] + p[3]) :
               k \in 0..(cut.src.shape[1] - 1), p \in Grid(CutShape(cut))})

(***************************************************************************)
(* Coordinate mapping.  A point is [n |-> <<a, b, c>>, d |-> den]: the     *)
(* coordinates a/den, b/den, c/den.                                        *)
(***************************************************************************)
\* make_dest_corners(sh): the 8 corners of the 0-based index box of shape sh
make_dest_corners(sh) ==
    {<<a * (sh[1] - 1), b * (sh[2] - 1), c * (sh[3] - 1)>> : a \in {0, 1}, b \in {0, 1}, c \in {0, 1}}

\* make_dest_coords(sh): every voxel index of the destination array
make_dest_coords(sh) == Grid(sh)

\* np.any(M[3,:3] != 0)
HasPerspective(M) == M.n[4][1] # 0 \/ M.n[4][2] # 0 \/ M.n[4][3] # 0

\* row i of M_inv times the homogeneous point (p, 1), as a numerator over M_inv.d
RowDot(Mi, i, p) == Mi.n[i][1] * p[1] + Mi.n[i][2] * p[2] + Mi.n[i][3] * p[3] + Mi.n[i][4]

\* np.dot(M_inv, p) with the homogeneous divide when M carries perspective
\* coefficients, cut to the three spatial coordinates
MapPoint(M, Mi, p) ==
    LET den == IF HasPerspective(M) THEN RowDot(Mi, 4, p) ELSE Mi.d
        s   == IF den < 0 THEN -1 ELSE 1
    IN  [n |-> <<s * RowDot(Mi, 1, p), s * RowDot(Mi, 2, p), s * RowDot(Mi, 3, p)>>,
         d |-> s * den]

\* np.min(np.floor(pts), 0) and np.max(np.ceil(pts + 1), 0) after a shift by -off
FloorMin(pts, off) ==
    [a \in 1..3 |-> SetMin({Floor(q.n[a] - off[a] * q.d, q.d) : q \in pts})]

\* a variant of CeilMaxPlus1 that leaves out the neighbour linear interpolation needs
CeilMax_NoNeighbour(pts, off) ==
    [a \in 1..3 |-> SetMax({Ceil(q.n[a] - off[a] * q.d, q.d) : q \in pts})]

CeilMaxPlus1(pts, off) ==
    [a \in 1..3 |-> SetMax({Ceil(q.n[a] - off[a] * q.d + q.d, q.d) : q \in pts})]

Zero3 == <<0, 0, 0>>

\* a variant of OutOfBounds that tests the lower bound only
OutOfBounds_LowOnly(lo, hi, sh) == \E a \in 1..3 : lo[a] < 0

\* a variant of OutOfBounds that accepts hi = sh
OutOfBounds_OffByOne(lo, hi, sh) == \E a \in 1..3 : lo[a] < 0 \/ hi[a] > sh[a]

\* np.any(lo < 0) or np.any(hi >= sh)
OutOfBounds(lo, hi, sh) == \E a \in 1..3 : lo[a] < 0 \/ hi[a] >= sh[a]

(***************************************************************************)
(* Resampling                                                              *)
(***************************************************************************)
\* map_coordinates_nearest for one destination voxel with source point q
map_coordinates_nearest(cut, k, q, lo) ==
    LET u == Round(q.n[1] - lo[1] * q.d, q.d)
        v == Round(q.n[2] - lo[2] * q.d, q.d)
        w == Round(q.n[3] - lo[3] * q.d, q.d)
    IN  IF InCut(cut, u, v, w) THEN Frac(CutAt(cut, k, u, v, w), 1) ELSE Undef

\* a variant of map_coordinates_linear with the two weights of the first axis exchanged
map_coordinates_linear_Swapped(cut, k, q, lo) ==
    LET un == q.n[1] - lo[1] * q.d
        vn == q.n[2] - lo[2] * q.d
        wn == q.n[3] - lo[3] * q.d
        u0 == Trunc(un, q.d)
        v0 == Trunc(vn, q.d)
        w0 == Trunc(wn, q.d)
        du == q.d - (un - u0 * q.d)
        dv == vn - v0 * q.d
        dw == wn - w0 * q.d
        val == CutAt(cut, k, u0, v0, w0) * (q.d - du) * (q.d - dv) * (q.d - dw)
             + CutAt(cut, k, u0 + 1, v0, w0) * du * (q.d - dv) * (q.d - dw)
             + CutAt(cut, k, u0, v0 + 1, w0) * (q.d - du) * dv * (q.d - dw)
             + CutAt(cut, k, u0, v0, w0 + 1) * (q.d - du) * (q.d - dv) * dw
             + CutAt(cut, k, u0 + 1, v0, w0 + 1) * du * (q.d - dv) * dw
             + CutAt(cut, k, u0, v0 + 1, w0 + 1) * (q.d - du) * dv * dw
             + CutAt(cut, k, u0 + 1, v0 + 1, w0) * du * dv * (q.d - dw)
             + CutAt(cut, k, u0 + 1, v0 + 1, w0 + 1) * du * dv * dw
    IN  Frac(val, q.d * q.d * q.d)

\* a variant of map_coordinates_linear with the two weights of the last axis exchanged
map_coordinates_linear_SwappedLast(cut, k, q, lo) ==
    LET un == q.n[1] - lo[1] * q.d
        vn == q.n[2] - lo[2] * q.d
        wn == q.n[3] - lo[3] * q.d
        u0 == Trunc(un, q.d)
        v0 == Trunc(vn, q.d)
        w0 == Trunc(wn, q.d)
        du == un - u0 * q.d
        dv == vn - v0 * q.d
        dw == q.d - (wn - w0 * q.d)
        val == CutAt(cut, k, u0, v0, w0) * (q.d - du) * (q.d - dv) * (q.d - dw)
             + CutAt(cut, k, u0 + 1, v0, w0) * du * (q.d - dv) * (q.d - dw)
             + CutAt(cut, k, u0, v0 + 1, w0) * (q.d - du) * dv * (q.d - dw)
             + CutAt(cut, k, u0, v0, w0 + 1) * (q.d - du) * (q.d - dv) * dw
             + CutAt(cut, k, u0 + 1, v0, w0 + 1) * du * (q.d - dv) * dw
             + CutAt(cut, k, u0, v0 + 1, w0 + 1) * (q.d - du) * dv * dw
             + CutAt(cut, k, u0 + 1, v0 + 1, w0) * du * dv * (q.d - dw)
             + CutAt(cut, k, u0 + 1, v0 + 1, w0 + 1) * du * dv * dw
    IN  Frac(val, q.d * q.d * q.d)

\* map_coordinates_linear for one destination voxel with source point q
map_coordinates_linear(cut, k, q, lo) ==
    LET un == q.n[1] - lo[1] * q.d
        vn == q.n[2] - lo[2] * q.d
        wn == q.n[3] - lo[3] * q.d
        u0 == Trunc(un, q.d)
        v0 == Trunc(vn, q.d)
        w0 == Trunc(wn, q.d)
        u1 == u0 + 1
        v1 == v0 + 1
        w1 == w0 + 1
        du == un - u0 * q.d
        dv == vn - v0 * q.d
        dw == wn - w0 * q.d
        val == CutAt(cut, k, u0, v0, w0) * (q.d - du) * (q.d - dv) * (q.d - dw)
             + CutAt(cut, k, u1, v0, w0) * du * (q.d - dv) * (q.d - dw)
             + CutAt(cut, k, u0, v1, w0) * (q.d - du) * dv * (q.d - dw)
             + CutAt(cut, k, u0, v0, w1) * (q.d - du) * (q.d - dv) * dw
             + CutAt(cut, k, u1, v0, w1) * du * (q.d - dv) * dw
             + CutAt(cut, k, u0, v1, w1) * (q.d - du) * dv * dw
             + CutAt(cut, k, u1, v1, w0) * du * dv * (q.d - dw)
             + CutAt(cut, k, u1, v1, w1) * du * dv * dw
    IN  IF InCut(cut, u0, v0, w0) /\ InCut(cut, u1, v1, w1)
        THEN Frac(val, q.d * q.d * q.d)
        ELSE Undef

(***************************************************************************)
(* State                                                                   *)
(***************************************************************************)
VARIABLES
    ws,         \* the warp_slice call in progress: arguments, position, locals, result
    reads,      \* the regions requested from the volumetric sources during the call
    gw,         \* per caller, its get_warped_coord_transform call in progress
    np_random   \* the state of numpy's module-level generator, shared by the process

vars == <<ws, reads, gw, np_random>>

Workers == {1, 2}

(***************************************************************************)
(* warp_slice, one phase per bounds validation or source read              *)
(***************************************************************************)
NoArray == <<>>

\* The values a caller's target_discrete_ix list holds: Python ints and Python
\* bools.  v is the number the value compares equal to (True == 1, False == 0).
PyInt(i) == [bool |-> FALSE, v |-> i]

PyTrue == [bool |-> TRUE, v |-> 1]

PyFalse == [bool |-> TRUE, v |-> 0]

\* target_discrete_ix = None
NoMask == [given |-> FALSE, ix |-> <<>>]

WsIdle ==
    [pc |-> "idle", inp_src |-> NoSource, patch_shape |-> Zero3, M |-> identity,
     target_src |-> NoSource, target_patch_shape |-> Zero3, target_discrete_ix |-> NoMask,
     lo |-> Zero3, hi |-> Zero3, lo_targ |-> Zero3, hi_targ |-> Zero3,
     inp |-> NoArray, target |-> NoArray, inp_by |-> NoArray, target_by |-> NoArray,
     err |-> "", raised_at |-> 0, clipped |-> FALSE]

Raise(w, e, line) == [w EXCEPT !.pc = "raised", !.err = e, !.raised_at = line]

\* src_corners: the 8 destination corners mapped through M_inv (lines 282-289)
SrcCorners(M, patch_shape) ==
    LET M_inv == inv(M)
    IN  {MapPoint(M, M_inv, c) : c \in make_dest_corners(patch_shape)}

\* src_coords: the dense destination grid mapped through M_inv (lines 295-300)
SrcCoords(M, patch_shape) ==
    LET M_inv == inv(M)
    IN  [p \in make_dest_coords(patch_shape) |-> MapPoint(M, M_inv, p)]

\* lines 290-291
CornerLo(M, patch_shape) == FloorMin(SrcCorners(M, patch_shape), Zero3)

CornerHi(M, patch_shape) == CeilMaxPlus1(SrcCorners(M, patch_shape), Zero3)

\* lines 268-293: the dimensionality test, the inversion and the corner check
CheckInput(w) ==
    IF Len(w.inp_src.shape) = 3 THEN Raise(w, "NotImplementedError", 271)
    ELSE IF Len(w.inp_src.shape) # 4 THEN Raise(w, "ValueError", 280)
    ELSE IF Singular(w.M) THEN Raise(w, "LinAlgError", 282)
    ELSE LET lo == CornerLo(w.M, w.patch_shape)
             hi == CornerHi(w.M, w.patch_shape)
         IN  IF OutOfBounds(lo, hi, Spatial(w.inp_src))
             THEN Raise(w, "WarpingOOBError", 293)
             ELSE [w EXCEPT !.pc = "read_inp", !.lo = lo, !.hi = hi]

Plus1(v) == <<v[1] + 1, v[2] + 1, v[3] + 1>>

\* lines 306-307: the resampler called for each input channel
InputResamplers(w) == [k \in 0..(w.inp_src.shape[1] - 1) |-> "map_coordinates_linear"]

\* lines 304-307: every input channel is resampled by map_coordinates_linear
ResampleInput(w) ==
    LET img_cut == slice_h5(w.inp_src, w.lo, Plus1(w.hi))
        src_coords == SrcCoords(w.M, w.patch_shape)
    IN  [k \in 0..(w.inp_src.shape[1] - 1) |->
            [p \in make_dest_coords(w.patch_shape) |->
                map_coordinates_linear(img_cut, k, src_coords[p], w.lo)]]

\* lines 312, 317: np.subtract of two shapes
Sub3(a, b) == <<a[1] - b[1], a[2] - b[2], a[3] - b[3]>>

\* lines 313, 318: np.any(np.mod(off, 2))
AnyOdd(off) == \E a \in 1..3 : off[a] % 2 # 0

\* lines 315, 320: off //= 2
Halve(off) == <<off[1] \div 2, off[2] \div 2, off[3] \div 2>>

\* lines 322-326: the central sub-grid of src_coords
TargetGrid(off_ps, target_patch_shape) ==
    {p \in (off_ps[1]..(off_ps[1] + target_patch_shape[1] - 1))
        \X (off_ps[2]..(off_ps[2] + target_patch_shape[2] - 1))
        \X (off_ps[3]..(off_ps[3] + target_patch_shape[3] - 1)) : TRUE}

SrcCoordsTarget(w) ==
    LET off_ps == Halve(Sub3(w.patch_shape, w.target_patch_shape))
        src_coords == SrcCoords(w.M, w.patch_shape)
    IN  [p \in TargetGrid(off_ps, w.target_patch_shape) |-> src_coords[p]]

Range(f) == {f[x] : x \in DOMAIN f}

TargetOff(w) == Halve(Sub3(Spatial(w.inp_src), Spatial(w.target_src)))

\* lines 328, 330
TargetLo(w) == FloorMin(Range(SrcCoordsTarget(w)), TargetOff(w))

TargetHi(w) == CeilMaxPlus1(Range(SrcCoordsTarget(w)), TargetOff(w))

\* lines 309-332: the two centering tests and the target bounds check
CheckTarget(w) ==
    IF AnyOdd(Sub3(Spatial(w.inp_src), Spatial(w.target_src)))
    THEN Raise(w, "ValueError", 314)
    ELSE IF AnyOdd(Sub3(w.patch_shape, w.target_patch_shape))
    THEN Raise(w, "ValueError", 319)
    ELSE LET lo_targ == TargetLo(w)
             hi_targ == TargetHi(w)
         IN  IF OutOfBounds(lo_targ, hi_targ, Spatial(w.target_src))
             THEN Raise(w, "WarpingOOBError", 332)
             ELSE [w EXCEPT !.pc = "read_target", !.lo_targ = lo_targ, !.hi_targ = hi_targ]

Add3(a, b) == <<a[1] + b[1], a[2] + b[2], a[3] + b[3]>>

\* i in target_discrete_ix
PyIn(i, lst) == \E j \in DOMAIN lst : lst[j].v = i

\* a variant of IsDiscrete that reads the list as one flag per channel
IsDiscrete_Flag(mask, k) ==
    IF mask.given THEN k + 1 \in DOMAIN mask.ix /\ mask.ix[k + 1].v # 0 ELSE TRUE

\* lines 342-345: the per-channel policy
IsDiscrete(mask, k) == IF mask.given THEN PyIn(k, mask.ix) ELSE TRUE

\* lines 347-351: the resampler called for each target channel
TargetResamplers(w) ==
    [k \in 0..(w.target_src.shape[1] - 1) |->
        IF IsDiscrete(w.target_discrete_ix, k)
        THEN "map_coordinates_nearest" ELSE "map_coordinates_linear"]

\* lines 339-351: every target channel is resampled by its policy
ResampleTarget(w) ==
    LET target_cut == slice_h5(w.target_src, w.lo_targ, Plus1(w.hi_targ))
        coords == SrcCoordsTarget(w)
        off_ps == Halve(Sub3(w.patch_shape, w.target_patch_shape))
        lo_targ == Add3(w.lo_targ, TargetOff(w))
    IN  [k \in 0..(w.target_src.shape[1] - 1) |->
            [p \in Grid(w.target_patch_shape) |->
                IF TargetResamplers(w)[k] = "map_coordinates_nearest"
                THEN map_coordinates_nearest(target_cut, k, coords[Add3(p, off_ps)], lo_targ)
                ELSE map_coordinates_linear(target_cut, k, coords[Add3(p, off_ps)], lo_targ)]]

\* line 353: np.any(target > n_target_classes)
AnyAbove(target, m) ==
    \E k \in DOMAIN target : \E p \in DOMAIN target[k] :
        target[k][p].d # 0 /\ target[k][p].n > m * target[k][p].d

\* line 355: target.clip(0, n_target_classes)
Clip(target, m) ==
    [k \in DOMAIN target |-> [p \in DOMAIN target[k] |->
        LET t == target[k][p]
        IN  IF t.d = 0 THEN t
            ELSE IF t.n < 0 THEN Frac(0, 1)
            ELSE IF t.n > m * t.d THEN Frac(m, 1)
            ELSE t]]

\* lines 338-355
FinishTarget(w) ==
    LET n_target_classes == CutMax(slice_h5(w.target_src, w.lo_targ, Plus1(w.hi_targ)))
        target == ResampleTarget(w)
    IN  IF AnyAbove(target, n_target_classes)
        THEN [w EXCEPT !.pc = "returned", !.target = Clip(target, n_target_classes),
                       !.target_by = TargetResamplers(w), !.clipped = TRUE]
        ELSE [w EXCEPT !.pc = "returned", !.target = target,
                       !.target_by = TargetResamplers(w)]

(***************************************************************************)
(* The arguments a caller passes to warp_slice                             *)
(***************************************************************************)
MaxDim == 4

MaxShift == 2

SrcDims == (MaxDim - 1)..MaxDim

PatchDims == 2..(MaxDim - 1)

\* input sources: one channel, (C, D, H, W), and one stored without a channel axis
InpSources ==
    {[shape |-> <<1, d, h, h>>, pat |-> "coord"] : d \in SrcDims, h \in SrcDims}
    \cup {[shape |-> <<MaxDim, MaxDim, MaxDim>>, pat |-> "coord"]}

PatchShapes == {<<d, h, h>> : d \in PatchDims, h \in PatchDims}

Deltas == {<<0, 0, 0>>, <<2, 2, 2>>, <<1, 0, 0>>}

Positive3(sh) == sh[1] > 0 /\ sh[2] > 0 /\ sh[3] > 0

\* target sources for an input source: two channels, no larger than the input
TargetSources(inp_src) ==
    IF Len(inp_src.shape) # 4 THEN {}
    ELSE {[shape |-> <<2>> \o Sub3(Spatial(inp_src), dl), pat |-> "labels"] :
             dl \in {d \in Deltas : Positive3(Sub3(Spatial(inp_src), d))}}

TargetPatchShapes(patch_shape) ==
    {Sub3(patch_shape, dl) : dl \in {d \in Deltas : Positive3(Sub3(patch_shape, d))}}

\* the contents of the target source and the channels declared discrete: class
\* labels with every channel discrete by default, signed values with the list
\* [0], and signed values with the list [True, True]
TargetKinds == {[pat |-> "labels", mask |-> NoMask],
                [pat |-> "signed", mask |-> [given |-> TRUE, ix |-> <<PyInt(0)>>]],
                [pat |-> "signed", mask |-> [given |-> TRUE, ix |-> <<PyTrue, PyTrue>>]]}

\* the linear parts of the transforms passed in: the identity, a depth flip, a
\* swap of height and width, the anisotropic depth scale and a singular matrix
flip_z == scale(-1, 1, 1)

swap_yx ==
    [n |-> << <<1, 0, 0, 0>>, <<0, 0, 1, 0>>, <<0, 1, 0, 0>>, <<0, 0, 0, 1>> >>,
     d |-> 1]

LinearParts == {identity, flip_z, swap_yx, scale(2, 1, 1), scale(0, 1, 1)}

\* source-side shifts, in halves of a voxel, the same on the three axes
Shifts == {-2} \cup 0..MaxShift

\* a transform with a perspective coefficient on depth: its inverse maps the
\* destination voxel (z, y, x) to (1 - z, y - z/2, x - z/2) / (1 - 3z/4)
perspective_z ==
    [n |-> << <<-4, 0, 0, 4>>, <<-2, 1, 0, 2>>, <<-2, 0, 1, 2>>, <<-3, 0, 0, 4>> >>,
     d |-> 1]

Transforms ==
    {chain_matrices(<<L, translate(-h, -h, -h)>>) : L \in LinearParts, h \in Shifts}
    \cup {perspective_z}

(***************************************************************************)
(* warp_slice as steps                                                     *)
(***************************************************************************)
\* the call: the arguments are bound and nothing has been read
WS_Call ==
    /\ ws.pc = "idle"
    /\ \E inp_src \in InpSources, patch_shape \in PatchShapes, M \in Transforms :
          \/ /\ ws' = [WsIdle EXCEPT !.pc = "check_inp", !.inp_src = inp_src,
                                     !.patch_shape = patch_shape, !.M = M]
          \/ \E target_src \in TargetSources(inp_src),
                target_patch_shape \in TargetPatchShapes(patch_shape),
                kind \in TargetKinds :
                ws' = [WsIdle EXCEPT !.pc = "check_inp", !.inp_src = inp_src,
                                     !.patch_shape = patch_shape, !.M = M,
                                     !.target_src = [target_src EXCEPT !.pat = kind.pat],
                                     !.target_patch_shape = target_patch_shape,
                                     !.target_discrete_ix = kind.mask]
    /\ reads' = <<>>
    /\ UNCHANGED <<gw, np_random>>

\* lines 268-293
WS_CheckInput ==
    /\ ws.pc = "check_inp"
    /\ ws' = CheckInput(ws)
    /\ UNCHANGED <<reads, gw, np_random>>

\* lines 295-307: the input region is read and resampled; without a target
\* source the call returns (lines 357-359)
WS_ReadInput ==
    /\ ws.pc = "read_inp"
    /\ reads' = Append(reads, [src |-> "inp_src", op |-> "read", lo |-> ws.lo, hi |-> Plus1(ws.hi)])
    /\ ws' = [ws EXCEPT !.inp = ResampleInput(ws), !.inp_by = InputResamplers(ws),
                        !.pc = IF ws.target_src = NoSource THEN "returned" ELSE "check_target"]
    /\ UNCHANGED <<gw, np_random>>

\* lines 308-332
WS_CheckTarget ==
    /\ ws.pc = "check_target"
    /\ ws' = CheckTarget(ws)
    /\ UNCHANGED <<reads, gw, np_random>>

\* lines 335-355, 359
WS_ReadTarget ==
    /\ ws.pc = "read_target"
    /\ reads' = Append(reads, [src |-> "target_src", op |-> "read",
                               lo |-> ws.lo_targ, hi |-> Plus1(ws.hi_targ)])
    /\ ws' = FinishTarget(ws)
    /\ UNCHANGED <<gw, np_random>>

\* the caller takes the result or the exception; the next call may start
WS_Done ==
    /\ ws.pc \in {"returned", "raised"}
    /\ ws' = WsIdle
    /\ reads' = <<>>
    /\ UNCHANGED <<gw, np_random>>

(***************************************************************************)
(* get_warped_coord_transform.  Lengths that the program holds as floats   *)
(* (dest_center, src_remainder, lo_pos, hi_pos, the sampled center) are    *)
(* multiples of 1/2 and are held doubled, as integers.                     *)
(***************************************************************************)
\* None, for a shape argument
None == <<>>

\* shape[-3:]
Last3(shape) == <<shape[Len(shape) - 2], shape[Len(shape) - 1], shape[Len(shape)]>>

NoArgs ==
    [inp_src_shape |-> None, patch_shape |-> None, aniso_factor |-> 1, sample_aniso |-> FALSE,
     warp_amount |-> 0, lock_z |-> FALSE, no_x_flip |-> FALSE, perspective |-> FALSE,
     target_src_shape |-> None, target_patch_shape |-> None]

GwIdle ==
    [pc |-> "idle", args |-> NoArgs, rng0 |-> 0, np0 |-> 0, rng |-> 0, center |-> Zero3,
     F |-> identity, S |-> identity, R |-> identity, W |-> identity, M |-> identity,
     err |-> "", raised_at |-> 0]

\* line 434: target_patch_shape was rebound at line 420 to np.array(target_patch_shape),
\* an array whatever the argument was, so "target_patch_shape is not None" holds
TargetBranch(a) == TRUE

\* line 436
Offset(a) == Halve(Sub3(Last3(a.inp_src_shape), Last3(a.target_src_shape)))

\* lines 437 and 443, doubled
LoPos(a) ==
    IF TargetBranch(a)
    THEN [i \in 1..3 |-> Max2(a.patch_shape[i], a.target_patch_shape[i] + 2 * Offset(a)[i])]
    ELSE [i \in 1..3 |-> a.patch_shape[i]]

\* lines 438-441 and 444, doubled
HiPos(a) ==
    IF TargetBranch(a)
    THEN [i \in 1..3 |-> Min2(2 * Last3(a.inp_src_shape)[i] - a.patch_shape[i],
                              2 * Last3(a.target_src_shape)[i] - a.target_patch_shape[i]
                                + 2 * Offset(a)[i])]
    ELSE [i \in 1..3 |-> 2 * Last3(a.inp_src_shape)[i] - a.patch_shape[i]]

\* lines 446-448: the sampled center, doubled; axis i takes the i-th draw
Center(a, st) ==
    [i \in 1..3 |-> 2 * randint(RngAfter(st, i - 1), LoPos(a)[i], HiPos(a)[i])
                    + (a.patch_shape[i] % 2)]

CenterDraws == 3

\* the state of rng when get_random_rotmat is called
RotState(a, st) ==
    RngAfter(st, CenterDraws + FlipDraws + (IF a.no_x_flip THEN 0 ELSE SwapDraws))

\* lines 418-461: everything drawn from the call's own generator
Sample(g) ==
    LET a == g.args
    IN  IF a.target_src_shape = None THEN [g EXCEPT !.pc = "raised", !.err = "TypeError", !.raised_at = 425]
        ELSE IF TargetBranch(a) /\ a.target_patch_shape = None
        THEN [g EXCEPT !.pc = "raised", !.err = "TypeError", !.raised_at = 435]
        ELSE IF \E i \in 1..3 : ~(LoPos(a)[i] < HiPos(a)[i])
        THEN [g EXCEPT !.pc = "raised", !.err = "AssertionError", !.raised_at = 445]
        ELSE IF \E i \in 1..3 : IntLow(LoPos(a)[i]) >= IntLow(HiPos(a)[i])
        THEN [g EXCEPT !.pc = "raised", !.err = "ValueError", !.raised_at = 446]
        ELSE [g EXCEPT
                !.center = Center(a, g.rng),
                !.F = get_random_flipmat(a.no_x_flip, RngAfter(g.rng, CenterDraws)),
                !.S = IF a.no_x_flip THEN identity
                      ELSE get_random_swapmat(a.lock_z, RngAfter(g.rng, CenterDraws + FlipDraws)),
                !.R = IF a.warp_amount = 0 THEN identity
                      ELSE get_random_rotmat(a.lock_z, RotState(a, g.rng)),
                !.rng = IF a.warp_amount = 0 THEN RotState(a, g.rng)
                        ELSE RngAfter(RotState(a, g.rng), RotDraws(a.lock_z)),
                !.pc = IF a.warp_amount = 0 THEN "compose" ELSE "warp"]

\* line 462: the warp matrix, drawn from the module-level generator in state npr
Warp(g, npr) ==
    [g EXCEPT !.W = get_random_warpmat(g.args.lock_z, g.args.perspective, npr),
              !.pc = "compose"]

\* a variant of ComposeList whose source translation is by +center
ComposeList_NotRecentred(g) ==
    LET a == g.args
        T_src == translate(g.center[1], g.center[2], g.center[3])
        S_src == scale(a.aniso_factor, 1, 1)
        S_dest == IF a.sample_aniso THEN scale_recip_z(a.aniso_factor) ELSE identity
        T_dest == translate(a.patch_shape[1], a.patch_shape[2], a.patch_shape[3])
    IN  <<T_dest, S_dest, g.R, g.W, g.F, g.S, S_src, T_src>>

\* lines 467-480: the list [T_dest, S_dest, R, W, F, S, S_src, T_src]
ComposeList(g) ==
    LET a == g.args
        T_src == translate(-g.center[1], -g.center[2], -g.center[3])
        S_src == scale(a.aniso_factor, 1, 1)
        S_dest == IF a.sample_aniso THEN scale_recip_z(a.aniso_factor) ELSE identity
        T_dest == translate(a.patch_shape[1], a.patch_shape[2], a.patch_shape[3])
    IN  <<T_dest, S_dest, g.R, g.W, g.F, g.S, S_src, T_src>>

\* lines 467-482
Compose(g) == [g EXCEPT !.M = chain_matrices(ComposeList(g)), !.pc = "returned"]

\* the whole call, run without interruption from generator state st with the
\* module-level generator in state npr
RunAlone(a, st, npr) ==
    LET g1 == Sample([GwIdle EXCEPT !.args = a, !.rng0 = st, !.np0 = npr, !.rng = st])
        g2 == IF g1.pc = "warp" THEN Warp(g1, npr) ELSE g1
    IN  IF g2.pc = "compose" THEN Compose(g2) ELSE g2

(***************************************************************************)
(* The arguments a caller passes to get_warped_coord_transform             *)
(***************************************************************************)
MaxSeed == 2

Seeds == 1..MaxSeed

NpSeeds == {1, RngMod - 1}

BuildInpShapes == {<<MaxDim, MaxDim, MaxDim>>, <<1, MaxDim + 1, MaxDim, MaxDim>>}

\* patch shapes: an even one, one with an odd depth and one with depth 0
BuildPatchShapes == {<<2, 2, 2>>, <<3, 2, 2>>, <<0, 2, 2>>}

OrNone(S) == S \cup {None}

\* a target shape: None, or the shape less dl
Less(shape, dl) == IF dl = None THEN None ELSE Sub3(shape, dl)

\* by how much the target source is smaller than the input source
BuildDeltas == Deltas \cup {<<2, 0, 0>>}

BuildArgs ==
    {[inp_src_shape |-> inp, patch_shape |-> ps, aniso_factor |-> 2, sample_aniso |-> sa,
      warp_amount |-> wa, lock_z |-> lz, no_x_flip |-> nf, perspective |-> pe,
      target_src_shape |-> Less(Last3(inp), ds), target_patch_shape |-> Less(ps, dp)] :
        inp \in BuildInpShapes, ps \in BuildPatchShapes, sa \in BOOLEAN, wa \in {0, 1},
        lz \in BOOLEAN, nf \in BOOLEAN, pe \in BOOLEAN,
        ds \in OrNone(BuildDeltas), dp \in OrNone({<<0, 0, 0>>, <<1, 0, 0>>})}

\* two concurrent callers use the same shapes and differ in the options
ConcArgs ==
    {a \in BuildArgs :
        /\ a.inp_src_shape = <<MaxDim, MaxDim, MaxDim>> /\ a.target_src_shape = a.inp_src_shape
        /\ a.patch_shape = <<2, 2, 2>> /\ a.target_patch_shape = a.patch_shape
        /\ a.sample_aniso /\ a.lock_z /\ a.no_x_flip /\ ~a.perspective}

(***************************************************************************)
(* get_warped_coord_transform as steps of caller w                         *)
(***************************************************************************)
\* the call: the arguments and the caller's own generator are bound
GW_Call(w, Args) ==
    /\ gw[w].pc = "idle"
    /\ \E a \in Args, st \in Seeds :
          gw' = [gw EXCEPT ![w] = [GwIdle EXCEPT !.pc = "sample", !.args = a, !.rng0 = st,
                                                 !.np0 = np_random, !.rng = st]]
    /\ UNCHANGED <<ws, reads, np_random>>

\* lines 418-461
GW_Sample(w) ==
    /\ gw[w].pc = "sample"
    /\ gw' = [gw EXCEPT ![w] = Sample(gw[w])]
    /\ UNCHANGED <<ws, reads, np_random>>

\* line 462: np.random.uniform draws 16 variates from the module-level generator
GW_Warp(w) ==
    /\ gw[w].pc = "warp"
    /\ gw' = [gw EXCEPT ![w] = Warp(gw[w], np_random)]
    /\ np_random' = RngAfter(np_random, WarpDraws)
    /\ UNCHANGED <<ws, reads>>

\* lines 467-482
GW_Compose(w) ==
    /\ gw[w].pc = "compose"
    /\ gw' = [gw EXCEPT ![w] = Compose(gw[w])]
    /\ UNCHANGED <<ws, reads, np_random>>

Init ==
    /\ ws = WsIdle
    /\ reads = <<>>
    /\ gw = [w \in Workers |-> GwIdle]
    /\ np_random \in NpSeeds

\* warp_slice draws nothing: one state of the module-level generator is enough
InitWarp ==
    /\ Init
    /\ np_random = 1

NextWarp ==
    \/ WS_Call
    \/ WS_CheckInput
    \/ WS_ReadInput
    \/ WS_CheckTarget
    \/ WS_ReadTarget
    \/ WS_Done

SpecWarp == InitWarp /\ [][NextWarp]_vars

\* one caller, called once, over every argument combination
NextBuild ==
    \/ GW_Call(1, BuildArgs)
    \/ GW_Sample(1)
    \/ GW_Warp(1)
    \/ GW_Compose(1)

SpecBuild == Init /\ [][NextBuild]_vars

\* two callers, each called once with a generator of its own, interleaved
NextConc ==
    \E w \in Workers :
        \/ GW_Call(w, ConcArgs)
        \/ GW_Sample(w)
        \/ GW_Warp(w)
        \/ GW_Compose(w)

SpecConc == Init /\ [][NextConc]_vars

(***************************************************************************)
(* Properties of warp_slice, checked under SpecWarp                        *)
(***************************************************************************)
FourDim(w) == Len(w.inp_src.shape) = 4

\* the call is past its input validation (lines 268-293)
InputChecked(w) == w.pc \notin {"idle", "check_inp"}

\* the input patch has been resampled (line 307)
InputRead(w) == w.inp # NoArray

\* the errors of the input validation, by the line that raises them
InputErrorLines == {271, 280, 282, 293}

\* the geometry and bounds failures: dimensionality, input bounds, the two
\* centering tests, target bounds
GeometryErrorLines == {271, 280, 293, 314, 319, 332}

HasTarget(w) == w.target_src # NoSource

\* the input patch equals the source over the patch's index box, voxel for voxel
InputPatchIsSource(w) ==
    /\ DOMAIN w.inp = 0..(w.inp_src.shape[1] - 1)
    /\ \A k \in DOMAIN w.inp :
          /\ DOMAIN w.inp[k] = Grid(w.patch_shape)
          /\ \A p \in Grid(w.patch_shape) :
                w.inp[k][p] = Frac(Voxel(w.inp_src, k, p[1], p[2], p[3]), 1)

PatchFits(w) == \A a \in 1..3 : w.patch_shape[a] <= Spatial(w.inp_src)[a] - 1

\* C1 as stated: with M = identity and a patch shape equal to the spatial shape
\* of the 4-dimensional source, the call raises no error and the input patch
\* equals the source volume.
C1_IdentityFullVolume ==
    (/\ ws.pc \in {"returned", "raised"} /\ FourDim(ws)
     /\ ws.M = identity /\ ws.patch_shape = Spatial(ws.inp_src))
    => (ws.raised_at \notin InputErrorLines /\ InputPatchIsSource(ws))

\* C1 as amended: with M = identity, a patch at least one voxel smaller than the
\* source on every axis passes the input validation and the input patch equals
\* the source over [0, patch_shape), voxel for voxel; a patch that reaches the
\* source's extent on some axis (the full volume included) raises
\* WarpingOOBError at line 293 with nothing read.
C1_IdentitySubVolume ==
    (InputChecked(ws) /\ FourDim(ws) /\ ws.M = identity)
    => IF PatchFits(ws)
       THEN /\ ws.raised_at \notin InputErrorLines
            /\ ws.pc # "read_inp" => InputPatchIsSource(ws)
       ELSE /\ ws.pc = "raised" /\ ws.err = "WarpingOOBError" /\ ws.raised_at = 293
            /\ reads = <<>>

C1_Witness ==
    /\ ws.pc = "returned" /\ FourDim(ws) /\ ws.M = identity /\ PatchFits(ws)
    /\ InputRead(ws) /\ ws.patch_shape = <<3, 3, 3>>

\* the region spanned by the mapped corners leaves the source extent [0, sh - 1]
\* by at least one voxel on some axis
RegionExceeds(w) ==
    \E q \in SrcCorners(w.M, w.patch_shape) : \E a \in 1..3 :
        q.n[a] <= -q.d \/ q.n[a] >= Spatial(w.inp_src)[a] * q.d

\* C2: a call whose corner-mapped region exceeds the input source extent by at
\* least one voxel on some axis raises WarpingOOBError (line 293), and neither
\* source has been read when it is raised.
C2_OutOfBoundsBeforeRead ==
    (InputChecked(ws) /\ FourDim(ws) /\ ~Singular(ws.M) /\ RegionExceeds(ws))
    => (ws.pc = "raised" /\ ws.err = "WarpingOOBError" /\ ws.raised_at = 293 /\ reads = <<>>)

C2_Witness ==
    /\ ws.pc = "raised" /\ ws.raised_at = 293 /\ FourDim(ws) /\ RegionExceeds(ws)
    /\ HasTarget(ws) /\ ws.M # identity

\* C3 as stated: a call that fails with a geometry or bounds failure has read
\* neither source.
C3_GeometryErrorsBeforeAnyRead ==
    (ws.pc = "raised" /\ ws.raised_at \in GeometryErrorLines) => reads = <<>>

\* the spatial shape of the source a request names
SourceShape(w, r) == IF r.src = "inp_src" THEN Spatial(w.inp_src) ELSE Spatial(w.target_src)

\* C4: every region requested from a source is a read of [lo, hi) with
\* 0 <= lo and hi <= the source's spatial shape on every axis.
C4_RegionsInsideSource ==
    \A i \in DOMAIN reads :
        /\ reads[i].op = "read"
        /\ \A a \in 1..3 :
              /\ 0 <= reads[i].lo[a]
              /\ reads[i].lo[a] < reads[i].hi[a]
              /\ reads[i].hi[a] <= SourceShape(ws, reads[i])[a]

C4_Witness ==
    /\ Len(reads) = 2 /\ reads[1].src = "inp_src" /\ reads[2].src = "target_src"
    /\ \E a \in 1..3 : reads[1].hi[a] = Spatial(ws.inp_src)[a]

\* the least and the greatest of a set of points' coordinates on axis a, shifted
\* by -off, as fractions
LeastOn(pts, a, off) ==
    LET q == CHOOSE q \in pts : \A r \in pts : q.n[a] * r.d <= r.n[a] * q.d
    IN  Frac(q.n[a] - off * q.d, q.d)

GreatestOn(pts, a, off) ==
    LET q == CHOOSE q \in pts : \A r \in pts : q.n[a] * r.d >= r.n[a] * q.d
    IN  Frac(q.n[a] - off * q.d, q.d)

\* lo = floor(min) < 0 or hi = ceil(max) + 1 >= shape on some axis
StatedOutOfBounds(pts, off, sh) ==
    \E a \in 1..3 :
        \/ Floor(LeastOn(pts, a, off[a]).n, LeastOn(pts, a, off[a]).d) < 0
        \/ Ceil(GreatestOn(pts, a, off[a]).n, GreatestOn(pts, a, off[a]).d) + 1 >= sh[a]

\* the target validation was reached and both centering tests passed
TargetBoundsChecked(w) ==
    /\ HasTarget(w)
    /\ \/ w.pc = "read_target"
       \/ w.pc = "returned"
       \/ w.pc = "raised" /\ w.raised_at = 332

\* C5: the input validation raises WarpingOOBError exactly when
\* floor(min corner) < 0 or ceil(max corner) + 1 >= shape on some axis; the
\* target validation raises it exactly when the same holds of the dense target
\* sub-grid shifted by the volume offset, against the target source's shape.
C5_BoundsTest ==
    /\ (InputChecked(ws) /\ FourDim(ws) /\ ~Singular(ws.M))
       => ((ws.pc = "raised" /\ ws.err = "WarpingOOBError" /\ ws.raised_at = 293)
           <=> StatedOutOfBounds(SrcCorners(ws.M, ws.patch_shape), Zero3, Spatial(ws.inp_src)))
    /\ TargetBoundsChecked(ws)
       => ((ws.pc = "raised" /\ ws.err = "WarpingOOBError" /\ ws.raised_at = 332)
           <=> StatedOutOfBounds(Range(SrcCoordsTarget(ws)), TargetOff(ws),
                                 Spatial(ws.target_src)))

C5_Witness ==
    /\ ws.pc = "raised" /\ ws.raised_at = 332
    /\ \A a \in 1..3 : TargetLo(ws)[a] >= 0

\* C10 as stated: every value of a returned target patch lies in [0, m], m the
\* greatest value of the fetched target sub-cube.
C10_TargetWithinLabelRange ==
    (ws.pc = "returned" /\ HasTarget(ws))
    => LET m == CutMax(slice_h5(ws.target_src, ws.lo_targ, Plus1(ws.hi_targ)))
       IN  \A k \in DOMAIN ws.target : \A p \in DOMAIN ws.target[k] :
              /\ ws.target[k][p].d # 0
              /\ 0 <= ws.target[k][p].n
              /\ ws.target[k][p].n <= m * ws.target[k][p].d

(***************************************************************************)
(* Properties of get_warped_coord_transform                                *)
(***************************************************************************)
Returned(w) == gw[w].pc = "returned"

\* C6 as stated, under SpecConc: two calls with the same arguments and
\* generators in the same state return the same matrix.
C6_SameGeneratorSameMatrix ==
    \A v \in Workers, w \in Workers :
        (Returned(v) /\ Returned(w) /\ gw[v].args = gw[w].args /\ gw[v].rng0 = gw[w].rng0)
        => gw[v].M = gw[w].M

TargetRequested(a) == a.target_src_shape # None /\ a.target_patch_shape # None

\* C7 as stated, under SpecBuild: no matrix is returned when a target is
\* requested and the input and target source shapes differ by an odd number on
\* some axis.
C7_OddDifferenceFails ==
    \A w \in Workers :
        (Returned(w) /\ TargetRequested(gw[w].args))
        => ~AnyOdd(Sub3(Last3(gw[w].args.inp_src_shape), Last3(gw[w].args.target_src_shape)))

\* C8 as stated, under SpecBuild: called with neither target shape and a patch
\* smaller than the source on every axis, the call returns, with a center in
\* [patch_shape / 2, inp_src_shape - patch_shape / 2) on every axis.
C8_TargetOptional ==
    \A w \in Workers :
        LET a == gw[w].args
        IN  (/\ gw[w].pc \in {"returned", "raised"}
             /\ a.target_src_shape = None /\ a.target_patch_shape = None
             /\ \A i \in 1..3 : a.patch_shape[i] < Last3(a.inp_src_shape)[i])
            => /\ Returned(w)
               /\ \A i \in 1..3 :
                     /\ a.patch_shape[i] <= gw[w].center[i]
                     /\ gw[w].center[i] < 2 * Last3(a.inp_src_shape)[i] - a.patch_shape[i]

\* C9 as stated, under SpecConc: whatever the interleaving, a call returns the
\* matrix it returns when run alone from the same arguments, the same state of
\* its own generator and the same state of the process at its start.
C9_InterleavingInvisible ==
    \A w \in Workers :
        Returned(w) => gw[w].M = RunAlone(gw[w].args, gw[w].rng0, gw[w].np0).M

(***************************************************************************)
(* Properties of the resamplers and of the channel policy                  *)
(***************************************************************************)
\* the value resampler `name` gives target channel k at destination voxel p
TargetValueBy(w, k, p, name) ==
    LET target_cut == slice_h5(w.target_src, w.lo_targ, Plus1(w.hi_targ))
        off_ps == Halve(Sub3(w.patch_shape, w.target_patch_shape))
        q == SrcCoordsTarget(w)[Add3(p, off_ps)]
        lo_targ == Add3(w.lo_targ, TargetOff(w))
    IN  IF name = "map_coordinates_nearest"
        THEN map_coordinates_nearest(target_cut, k, q, lo_targ)
        ELSE map_coordinates_linear(target_cut, k, q, lo_targ)

TargetChannels(w) == 0..(w.target_src.shape[1] - 1)

\* the mask is a list of one bool per target channel
FlagMask(w) ==
    /\ w.target_discrete_ix.given
    /\ Len(w.target_discrete_ix.ix) = w.target_src.shape[1]
    /\ \A j \in DOMAIN w.target_discrete_ix.ix : w.target_discrete_ix.ix[j].bool

\* every input channel went through map_coordinates_linear
InputAllLinear(w) ==
    /\ DOMAIN w.inp_by = 0..(w.inp_src.shape[1] - 1)
    /\ \A k \in DOMAIN w.inp_by : w.inp_by[k] = "map_coordinates_linear"

\* C11 as stated: every input channel is resampled trilinearly; with a mask of
\* one boolean flag per target channel, channel k is resampled by nearest
\* neighbour exactly when its flag is set; with no mask every target channel is
\* resampled by nearest neighbour.
C11_PolicyByChannelFlag ==
    (ws.pc = "returned" /\ HasTarget(ws)
       /\ (FlagMask(ws) \/ ~ws.target_discrete_ix.given))
    => /\ InputAllLinear(ws)
       /\ \A k \in TargetChannels(ws) :
             ws.target_by[k] = "map_coordinates_nearest"
             <=> (~ws.target_discrete_ix.given \/ ws.target_discrete_ix.ix[k + 1].v = 1)

\* C11 as amended: every input channel is resampled trilinearly; a given mask is
\* a list of channel indices, and target channel k is resampled by nearest
\* neighbour exactly when some element of the list equals k (True counts as 1
\* and False as 0), trilinearly otherwise; with no mask every target channel is
\* resampled by nearest neighbour.  The returned values are the chosen
\* resampler's.
C11_PolicyByIndexList ==
    (ws.pc = "returned" /\ HasTarget(ws))
    => /\ InputAllLinear(ws)
       /\ \A k \in TargetChannels(ws) :
             /\ ws.target_by[k] = "map_coordinates_nearest"
                <=> (~ws.target_discrete_ix.given
                     \/ \E j \in DOMAIN ws.target_discrete_ix.ix :
                           ws.target_discrete_ix.ix[j].v = k)
             /\ ws.target_by[k] \in {"map_coordinates_nearest", "map_coordinates_linear"}
             /\ ~ws.clipped
                => \A p \in Grid(ws.target_patch_shape) :
                      ws.target[k][p] = TargetValueBy(ws, k, p, ws.target_by[k])

\* a call returned with the list [0] at coordinates where the two resamplers
\* differ: channel 0 holds the nearest value, channel 1 the trilinear one
C11_Witness ==
    /\ ws.pc = "returned" /\ HasTarget(ws)
    /\ ws.target_discrete_ix = [given |-> TRUE, ix |-> <<PyInt(0)>>]
    /\ ws.target_by = (0 :> "map_coordinates_nearest" @@ 1 :> "map_coordinates_linear")
    /\ \E p \in Grid(ws.target_patch_shape) :
          /\ ws.target[1][p] # TargetValueBy(ws, 1, p, "map_coordinates_nearest")
          /\ ws.target[1][p].d > 1

\* the source voxels around the point q - off of source src, channel k
Surrounding(src, k, q, off) ==
    {Voxel(src, k, Floor(q.n[1] - off[1] * q.d, q.d) + a,
                   Floor(q.n[2] - off[2] * q.d, q.d) + b,
                   Floor(q.n[3] - off[3] * q.d, q.d) + c) :
        a \in {0, 1}, b \in {0, 1}, c \in {0, 1}}

\* the point is integer on the three axes
IntegerAligned(q) == \A a \in 1..3 : q.n[a] % q.d = 0

\* value t is what trilinear resampling may give at the point q - off, when
\* its 8 neighbours were read inside the fetched sub-cube
TrilinearAt(t, src, k, q, off) ==
    t # Undef
    => /\ t.d > 0
       /\ SetMin(Surrounding(src, k, q, off)) * t.d <= t.n
       /\ t.n <= SetMax(Surrounding(src, k, q, off)) * t.d
       /\ IntegerAligned(q)
          => t = Frac(Voxel(src, k, (q.n[1] \div q.d) - off[1], (q.n[2] \div q.d) - off[2],
                                    (q.n[3] \div q.d) - off[3]), 1)

\* C12: a value map_coordinates_linear returns lies between the least and the
\* greatest of the 8 source voxels around its coordinate, and is exactly the
\* source voxel when the coordinate is integer on the three axes; for every
\* input channel and every trilinear target channel of every call.
C12_TrilinearExactAndBounded ==
    /\ InputRead(ws)
       => \A k \in DOMAIN ws.inp : \A p \in DOMAIN ws.inp[k] :
             TrilinearAt(ws.inp[k][p], ws.inp_src, k, SrcCoords(ws.M, ws.patch_shape)[p], Zero3)
    /\ (ws.pc = "returned" /\ HasTarget(ws) /\ ~ws.clipped)
       => \A k \in DOMAIN ws.target : \A p \in DOMAIN ws.target[k] :
             ws.target_by[k] = "map_coordinates_linear"
             => TrilinearAt(ws.target[k][p], ws.target_src, k,
                            SrcCoordsTarget(ws)[Add3(p, Halve(Sub3(ws.patch_shape,
                                                                 ws.target_patch_shape)))],
                            TargetOff(ws))

\* a returned call with an integer-aligned voxel, and one whose coordinate is
\* fractional on the three axes and whose value is strictly between two of its
\* neighbours
C12_Witness ==
    /\ ws.pc = "returned" /\ InputRead(ws)
    /\ \E p \in DOMAIN ws.inp[0] :
          LET q == SrcCoords(ws.M, ws.patch_shape)[p]
          IN  /\ \A a \in 1..3 : q.n[a] % q.d # 0
              /\ ws.inp[0][p].d > 1
              /\ SetMin(Surrounding(ws.inp_src, 0, q, Zero3)) * ws.inp[0][p].d < ws.inp[0][p].n

(***************************************************************************)
(* Properties of chain_matrices                                            *)
(***************************************************************************)
\* a homogeneous vector [n |-> <<a, b, c, h>>, d |-> den] in lowest terms
VecNorm(n, d) ==
    LET g == GCD(SeqGCD(n), d)
    IN  [n |-> [i \in Ix |-> n[i] \div g], d |-> d \div g]

\* the matrix A applied to the vector v
MatVec(A, v) ==
    VecNorm([i \in Ix |-> A.n[i][1] * v.n[1] + A.n[i][2] * v.n[2]
                         + A.n[i][3] * v.n[3] + A.n[i][4] * v.n[4]],
            A.d * v.d)

\* the matrices of the list applied to v one after the other, the last element
\* of the list first and the first element last
RECURSIVE ApplyLastFirst(_, _)
ApplyLastFirst(mat_list, v) ==
    IF mat_list = <<>> THEN v
    ELSE ApplyLastFirst(SubSeq(mat_list, 1, Len(mat_list) - 1),
                        MatVec(mat_list[Len(mat_list)], v))

UnitVectors == {[n |-> [i \in Ix |-> IF i = j THEN 1 ELSE 0], d |-> 1] : j \in Ix}

\* the leading and the trailing sub-lists of a list, the empty one included
SubLists(L) == {SubSeq(L, 1, j) : j \in 0..Len(L)} \cup {SubSeq(L, i, Len(L)) : i \in 1..Len(L)}

\* C13: chain_matrices of a list is the product of its elements in list order,
\* so that applying it to a vector applies the first element last; of the empty
\* list it is identity() and of a one-element list that element.  Checked on
\* the list a returned call composed and on its leading and trailing sub-lists.
C13_ChainIsOrderedProduct ==
    \A w \in Workers :
        Returned(w)
        => LET L == ComposeList(gw[w])
           IN  /\ gw[w].M = chain_matrices(L)
               /\ chain_matrices(<<>>) = identity
               /\ \A i \in DOMAIN L : chain_matrices(<<L[i]>>) = L[i]
               /\ \A S \in SubLists(L) : \A P \in {chain_matrices(S)} :
                     \A e \in UnitVectors : MatVec(P, e) = ApplyLastFirst(S, e)

\* a returned call whose flip and rotation do not commute, so the order shows
C13_Witness ==
    /\ Returned(1)
    /\ gw[1].args.warp_amount = 1
    /\ dot(gw[1].R, gw[1].F) # dot(gw[1].F, gw[1].R)
    /\ gw[1].center # <<0, 0, 0>>

(***************************************************************************)
(* Properties of the sampled center and of the composed matrix             *)
(***************************************************************************)
NonPositive(shape) == \E i \in 1..3 : shape[i] <= 0

\* C14 as stated: a call with a patch shape that is 0 or negative on some axis
\* never returns a result and never raises WarpingOOBError; it fails with
\* another error.
C14_NonPositivePatchFails ==
    /\ \A w \in Workers :
          (gw[w].pc \in {"returned", "raised"} /\ NonPositive(gw[w].args.patch_shape))
          => (gw[w].pc = "raised" /\ gw[w].err # "WarpingOOBError")
    /\ (ws.pc \in {"returned", "raised"} /\ NonPositive(ws.patch_shape))
       => (ws.pc = "raised" /\ ws.err # "WarpingOOBError")

\* twice the stated bounds of the center on axis i: lo = max(patchShape / 2,
\* targetPatchShape / 2 + offset), hi = min(inputShape - patchShape / 2,
\* targetShape - targetPatchShape / 2 + offset), offset = (inputShape - targetShape) / 2
StatedLo2(a, i) ==
    Max2(a.patch_shape[i],
         a.target_patch_shape[i] + Last3(a.inp_src_shape)[i] - Last3(a.target_src_shape)[i])

StatedHi2(a, i) ==
    Min2(2 * Last3(a.inp_src_shape)[i] - a.patch_shape[i],
         Last3(a.target_src_shape)[i] - a.target_patch_shape[i] + Last3(a.inp_src_shape)[i])

\* the input patch box centered at c lies within the input source, and the
\* target patch box centered at c - offset within the target source (doubled)
BoxesInside(a, c2, i) ==
    /\ 0 <= c2 - a.patch_shape[i]
    /\ c2 + a.patch_shape[i] <= 2 * Last3(a.inp_src_shape)[i]
    /\ 0 <= c2 - (Last3(a.inp_src_shape)[i] - Last3(a.target_src_shape)[i])
              - a.target_patch_shape[i]
    /\ c2 - (Last3(a.inp_src_shape)[i] - Last3(a.target_src_shape)[i])
          + a.target_patch_shape[i] <= 2 * Last3(a.target_src_shape)[i]

\* C15 as stated: a call that returns with a target requested has sampled a
\* center c with lo <= c < hi on every axis, so both patch boxes lie within
\* their sources; a call for which lo < hi fails on some axis does not return.
C15_CenterWithinBounds ==
    \A w \in Workers :
        LET a == gw[w].args
        IN  (Returned(w) /\ TargetRequested(a))
            => \A i \in 1..3 :
                  /\ StatedLo2(a, i) < StatedHi2(a, i)
                  /\ StatedLo2(a, i) <= gw[w].center[i]
                  /\ gw[w].center[i] < StatedHi2(a, i)
                  /\ BoxesInside(a, gw[w].center[i], i)

\* the point a homogeneous vector stands for, after the division by its fourth
\* component: [n |-> <<a, b, c>>, d |-> den] in lowest terms
Dehomogenise(v) ==
    LET g == GCD(SeqGCD(v.n), 0)
        s == IF v.n[4] < 0 THEN -1 ELSE 1
    IN  [n |-> <<s * (v.n[1] \div g), s * (v.n[2] \div g), s * (v.n[3] \div g)>>,
         d |-> s * (v.n[4] \div g)]

\* the sampled source center (z, y, x, 1); g.center holds it doubled
CenterVector(g) == VecNorm(<<g.center[1], g.center[2], g.center[3], 2>>, 2)

\* the destination patch center patch_shape / 2
DestCenter(g) ==
    Dehomogenise([n |-> <<g.args.patch_shape[1], g.args.patch_shape[2],
                          g.args.patch_shape[3], 2>>, d |-> 1])

\* the fourth column of the warp matrix: its translation and W[3,3]
WarpColumn(g) == VecNorm(<<g.W.n[1][4], g.W.n[2][4], g.W.n[3][4], g.W.n[4][4]>>, g.W.d)

\* the warp matrix translates
WarpTranslates(g) == \E i \in 1..3 : g.W.n[i][4] # 0

\* C16 as stated: the returned M maps the sampled source center to the
\* destination patch center patch_shape / 2, whatever the options.
C16_CenterMapsToPatchCenter ==
    \A w \in Workers :
        Returned(w) => Dehomogenise(MatVec(gw[w].M, CenterVector(gw[w]))) = DestCenter(gw[w])

\* C16 as amended: the returned M maps the sampled source center to
\* T_dest . S_dest . R applied to the fourth column of the warp matrix, that is
\* to the destination patch center displaced by the warp's translation entries
\* (scaled and rotated); the image is the destination patch center when those
\* entries are zero, in particular when the warp amount is 0.
C16_CenterMapsToWarpedPatchCenter ==
    \A w \in Workers :
        Returned(w)
        => \A img \in {Dehomogenise(MatVec(gw[w].M, CenterVector(gw[w])))} :
              /\ img = Dehomogenise(MatVec(
                          chain_matrices(<<translate(gw[w].args.patch_shape[1],
                                                     gw[w].args.patch_shape[2],
                                                     gw[w].args.patch_shape[3]),
                                           IF gw[w].args.sample_aniso
                                           THEN scale_recip_z(gw[w].args.aniso_factor)
                                           ELSE identity,
                                           gw[w].R>>),
                          WarpColumn(gw[w])))
              /\ ~WarpTranslates(gw[w]) <=> img = DestCenter(gw[w])
              /\ gw[w].args.warp_amount = 0 => ~WarpTranslates(gw[w])

\* a call returned with a warp whose translation entries displace the center,
\* under a flip and with perspective
C16_Witness ==
    /\ Returned(1)
    /\ gw[1].args.warp_amount = 1 /\ gw[1].args.perspective
    /\ WarpTranslates(gw[1])
    /\ gw[1].F # identity
    /\ Dehomogenise(MatVec(gw[1].M, CenterVector(gw[1]))) # DestCenter(gw[1])

\* the bottom row of M is (0, 0, 0, 1)
AffineBottomRow(M) == M.n[4][1] = 0 /\ M.n[4][2] = 0 /\ M.n[4][3] = 0 /\ M.n[4][4] = M.d

\* C17 as stated: the returned M has bottom-right element 1, and with
\* perspective off its bottom row is (0, 0, 0, 1).
C17_BottomRightIsOne ==
    \A w \in Workers :
        Returned(w)
        => /\ gw[w].M.n[4][4] = gw[w].M.d
           /\ ~gw[w].args.perspective => AffineBottomRow(gw[w].M)

\* C17 as amended: with perspective off or warp amount 0 the bottom row of the
\* returned M is (0, 0, 0, 1) and warp_slice makes no homogeneous divide; in
\* general the bottom row is (b, 1 - b . c) with b the first three entries of
\* the bottom row of W . F . S . S_src and c the sampled center, so that the
\* bottom-right element is 1 exactly when b . c = 0.
C17_BottomRowOfComposition ==
    \A w \in Workers :
        Returned(w)
        => \A B \in {chain_matrices(<<gw[w].W, gw[w].F, gw[w].S,
                                      scale(gw[w].args.aniso_factor, 1, 1)>>)} :
              /\ \A j \in 1..3 : gw[w].M.n[4][j] * B.d = B.n[4][j] * gw[w].M.d
              /\ 2 * B.d * gw[w].M.n[4][4]
                 = gw[w].M.d * (2 * B.d - (  B.n[4][1] * gw[w].center[1]
                                           + B.n[4][2] * gw[w].center[2]
                                           + B.n[4][3] * gw[w].center[3]))
              /\ (~gw[w].args.perspective \/ gw[w].args.warp_amount = 0)
                 => (AffineBottomRow(gw[w].M) /\ ~HasPerspective(gw[w].M))

\* a call returned with perspective on and a center away from the origin whose
\* matrix has a bottom-right element other than 1
C17_Witness ==
    /\ Returned(1)
    /\ gw[1].args.perspective /\ gw[1].args.warp_amount = 1
    /\ HasPerspective(gw[1].M)
    /\ gw[1].center # <<0, 0, 0>>
    /\ gw[1].M.n[4][4] # gw[1].M.d

\* C18 as stated: with lock_z the returned M has, in its upper-left 3x3 block,
\* zero entries in row 0 and in column 0 except the entry (0, 0), and a zero
\* perspective coefficient for depth.
C18_LockZKeepsDepthApart ==
    \A w \in Workers :
        (Returned(w) /\ gw[w].args.lock_z)
        => /\ gw[w].M.n[1][2] = 0 /\ gw[w].M.n[1][3] = 0
           /\ gw[w].M.n[2][1] = 0 /\ gw[w].M.n[3][1] = 0
           /\ gw[w].M.n[4][1] = 0

\* C19 as stated: in every call that passed the bounds validation, every index
\* the resamplers read (the truncated coordinate, its successor, and the rounded
\* coordinate) lies inside the fetched sub-cube, that is, no resampled value of
\* the input patch or of the target patch comes from a read outside it.
C19_IndicesInsideFetchedCube ==
    /\ \A k \in DOMAIN ws.inp : \A p \in DOMAIN ws.inp[k] : ws.inp[k][p] # Undef
    /\ \A k \in DOMAIN ws.target : \A p \in DOMAIN ws.target[k] : ws.target[k][p] # Undef

\* the warp_slice call a caller makes with the matrix and the shapes of a
\* returned get_warped_coord_transform call, at its input bounds validation
WarpCallFor(g) ==
    [WsIdle EXCEPT
        !.pc = "check_inp",
        !.inp_src = [shape |-> <<1>> \o Last3(g.args.inp_src_shape), pat |-> "coord"],
        !.patch_shape = g.args.patch_shape,
        !.M = g.M,
        !.target_src = IF g.args.target_src_shape = None \/ g.args.target_patch_shape = None
                       THEN NoSource
                       ELSE [shape |-> <<2>> \o g.args.target_src_shape, pat |-> "labels"],
        !.target_patch_shape = IF g.args.target_src_shape = None
                                  \/ g.args.target_patch_shape = None
                               THEN Zero3 ELSE g.args.target_patch_shape]

\* the state in which the validations of warp_slice leave that call
Validated(w) ==
    LET a == CheckInput(w)
    IN  IF a.pc = "raised" \/ ~HasTarget(a) THEN a ELSE CheckTarget(a)

\* the source and patch shapes can be centered on each other
Centerable(args) ==
    \/ args.target_src_shape = None
    \/ args.target_patch_shape = None
    \/ /\ ~AnyOdd(Sub3(Last3(args.inp_src_shape), args.target_src_shape))
       /\ ~AnyOdd(Sub3(args.patch_shape, args.target_patch_shape))

\* C20 as stated: a matrix returned for warp amount 0 with anisotropic sampling
\* and centerable shapes passes both bounds validations of warp_slice called
\* with the same shapes.
C20_UnwarpedTransformAccepted ==
    \A w \in Workers :
        (Returned(w) /\ gw[w].args.warp_amount = 0 /\ gw[w].args.sample_aniso
            /\ Centerable(gw[w].args))
        => \A v \in {Validated(WarpCallFor(gw[w]))} : v.err # "WarpingOOBError"

====
